---------------------------- MODULE Spec2Model ----------------------------
(***************************************************************************)
(* A model of the wellwish engine's mesh membership / routing layer        *)
(* (package mesh), of its burst dispatcher (package burst, the HTTP        *)
(* rendezvous of /run and /idle), of its container table (package burst,   *)
(* StartBurst / GetBurst / RunBurst) and of its UDP receive loop.  One     *)
(* specification has several nodes, each with a registry of its own.      *)
(*                                                                         *)
(* Go strings are modelled as sequences of tokens: a token is a piece of   *)
(* text that the program never splits (a scheme such as "http://", a host  *)
(* name, a literal part of an Englang sentence).  The empty Go string is   *)
(* the empty sequence.                                                     *)
(***************************************************************************)
EXTENDS Integers, Sequences, FiniteSets, TLC

VARIABLES
    \* ---- package mesh ----
    Nodes,       \* map address -> status (the address itself, or the eviction notice)
    Index,       \* map apiKey -> server address
    SiteUrl,     \* metadata.SiteUrl, fixed at start-up
    meshReq,     \* the request the mesh handled last
    meshStatus,  \* the HTTP status of its response
    ringCalls,   \* how often that request called ForwardRoundRobinRingRequest
    joinCalls,   \* the NewRoundRobinCall calls that request made
    proxyCalls,  \* the HttpProxyRequest calls that request made (URLs, in order)
    \* ---- package burst, the HTTP dispatcher ----
    BurstSession,      \* map apiKey -> session descriptor
    ContainerRunning,  \* map key -> "Burst box ... registered ..." sentence
    ContainerResults,  \* map worker key -> reply channel (the /run call that made it)
    lock,              \* the process-wide mutex: FALSE, or TRUE while the /idle handler holds it
    firstRun,
    keysIssued,        \* how many keys GenerateUniqueKey has handed out
    run,               \* the /run handler invocations
    idle,              \* the /idle handler that holds the lock
    readyTimers,       \* the keys whose goroutine of lines 94-101 is pending
    cleanupTimers,     \* the keys whose goroutine of lines 117-122 is pending
    coinResp,          \* what /run.coin answered last
    \* ---- package burst, the container table ----
    Container,         \* map container key -> "Burst container has key ..." sentence
    lambda,            \* the invocations of the /run handler of SetupBurstLambdaEndpoint
    \* ---- package burst, the UDP receive loop ----
    message,           \* acceptMessage's buffer of the data read so far
    handled,           \* the arguments of its handler calls, in order
    wire,              \* the datagrams on their way to the port, in order
    sent,              \* the payloads whose framed messages were sent, in order
    outbox,            \* for every sender, its datagrams that have not arrived yet
    posted,            \* map sender address -> the payload it sent
    replies,           \* for every handler call, the address its reply goes to
    \* ---- package mesh, several nodes ----
    NodesAt,           \* for every node of the mesh, its Nodes
    floodWire,         \* for every node, the PUT /node requests on their way to it
    joinLoops,         \* for every node, how often it ran the join loop
    reached,           \* the nodes that handled a PUT /node
    delivery           \* the PUT /node handled last: where, and what it sent

meshVars == <<Nodes, Index, SiteUrl, meshReq, meshStatus, ringCalls, joinCalls, proxyCalls>>

burstVars == <<BurstSession, ContainerRunning, ContainerResults, lock, firstRun, keysIssued,
               run, idle, readyTimers, cleanupTimers, coinResp>>

boxVars == <<Container, lambda>>

udpVars == <<message, handled, wire, sent>>

senderVars == <<outbox, posted, replies>>

floodVars == <<NodesAt, floodWire, joinLoops, reached, delivery>>

vars == <<meshVars, burstVars, boxVars, udpVars, senderVars, floodVars>>

\* What a step of one package leaves alone
notMesh == <<burstVars, boxVars, udpVars, senderVars, floodVars>>
notBurst == <<meshVars, boxVars, udpVars, senderVars, floodVars>>
notBox == <<meshVars, BurstSession, ContainerRunning, ContainerResults, firstRun, keysIssued,
            run, idle, readyTimers, cleanupTimers, coinResp, udpVars, senderVars, floodVars>>
notUdp == <<meshVars, burstVars, boxVars, senderVars, floodVars>>
notSenders == <<meshVars, burstVars, boxVars, wire, sent, floodVars>>
notFlood == <<meshVars, burstVars, boxVars, udpVars, senderVars>>

-----------------------------------------------------------------------------
(* Go string helpers, on token sequences *)

Empty == << >>

\* strings.HasPrefix
HasPrefix(s, prefix) ==
    /\ Len(prefix) <= Len(s)
    /\ SubSeq(s, 1, Len(prefix)) = prefix

\* strings.Index, 1-based; 0 when substr does not occur in s
IndexOf(s, substr) ==
    LET hits == { i \in 1..(Len(s) - Len(substr) + 1) :
                      SubSeq(s, i, i + Len(substr) - 1) = substr }
    IN  IF hits = {} THEN 0 ELSE CHOOSE i \in hits : \A j \in hits : i <= j

\* strings.Replace(s, old, new, 1): the first occurrence only
ReplaceFirst(s, old, new) ==
    LET i == IndexOf(s, old)
    IN  IF i = 0 THEN s
        ELSE SubSeq(s, 1, i - 1) \o new \o SubSeq(s, i + Len(old), Len(s))

\* a Go map lookup: the zero value "" for a missing key
Lookup(m, k) == IF k \in DOMAIN m THEN m[k] ELSE Empty

\* m[k] = v on a Go map
MapSet(m, k, v) == [x \in DOMAIN m \cup {k} |-> IF x = k THEN v ELSE m[x]]

\* delete(m, k) on a Go map
MapDelete(m, k) == [x \in DOMAIN m \ {k} |-> m[x]]

EmptyMap == [x \in {} |-> Empty]


-----------------------------------------------------------------------------
(* package englang: templated sentences.  A pattern is a token sequence in *)
(* which the token Hole stands for one %s.                                 *)

Hole == "%s"

\* englang.Printf: the pattern with its holes filled, in order, by args
RECURSIVE Printf(_, _)
Printf(pattern, args) ==
    IF pattern = Empty THEN Empty
    ELSE IF Head(pattern) = Hole
         THEN Head(args) \o Printf(Tail(pattern), Tail(args))
         ELSE <<Head(pattern)>> \o Printf(Tail(pattern), args)

ScanFail == [ok |-> FALSE, args |-> << >>]

\* englang.Scanf1: the literal parts must be found in order; a hole takes
\* the text up to the first occurrence of the literal part that follows it,
\* the last hole takes the rest, and the text must be used up.
RECURSIVE Scanf1(_, _)
Scanf1(s, pattern) ==
    IF pattern = Empty
    THEN IF s = Empty THEN [ok |-> TRUE, args |-> << >>] ELSE ScanFail
    ELSE IF Head(pattern) # Hole
    THEN IF s # Empty /\ Head(s) = Head(pattern)
         THEN Scanf1(Tail(s), Tail(pattern))
         ELSE ScanFail
    ELSE IF Tail(pattern) = Empty
    THEN [ok |-> TRUE, args |-> <<s>>]
    ELSE LET i == IndexOf(s, <<Head(Tail(pattern))>>)
         IN  IF i = 0 THEN ScanFail
             ELSE LET rest == Scanf1(SubSeq(s, i, Len(s)), Tail(pattern))
                  IN  IF rest.ok
                      THEN [ok |-> TRUE, args |-> <<SubSeq(s, 1, i - 1)>> \o rest.args]
                      ELSE ScanFail

\* englang.Synonym: the two sentences say the same
Synonym(a, b) == a = b

-----------------------------------------------------------------------------
(* package mesh *)

\* The status a node carries once it got a DELETE /node
EvictionNotice == <<"This node got an eviction notice.">>

NumHosts == 2
HostNames == <<"a:7777", "b:7777", "c:7777", "d:7777">>
Hosts == { HostNames[i] : i \in 1..NumHosts }

Http == "http://"
Https == "https://"

\* metadata.SiteUrl as shipped, and an https deployment of the same site
SiteUrls == { <<Http, "127.0.0.1:7777">>, <<Https, "127.0.0.1:7777">> }

\* The addresses a /node body or an index line may carry: a bare host, the
\* first host with either scheme, and a body that spells the eviction notice
Addresses ==
    { <<h>> : h \in Hosts }
        \cup { <<Http, HostNames[1]>>, <<Https, HostNames[1]>> }
        \cup { EvictionNotice }

ApiKeys == { <<"key1">>, <<"key2">> }

\* management.EnsureAdministrator: the admin key, or an error (NoAdmin)
AdminKey == <<"ADMINKEY">>
NoAdmin == Empty

\* One NewRoundRobinCall(url, method, body)
RoundRobinCall(url, method, body) == [url |-> url, method |-> method, body |-> body]

\* fmt.Sprintf("%s/node?apikey=%s", node, adminKey)
NodeUrl(node, adminKey) == node \o <<"/node?apikey=">> \o adminKey

\* The join loop without the test of line 77: evicted nodes are called too
JoinLoop_AlsoEvicted(nodes, address, adminKey) ==
    { RoundRobinCall(NodeUrl(node, adminKey), "PUT", address) : node \in DOMAIN nodes }

\* The join loop: for node, status := range Nodes { if status != eviction ... }
JoinLoop(nodes, address, adminKey) ==
    { RoundRobinCall(NodeUrl(node, adminKey), "PUT", address) :
          node \in { n \in DOMAIN nodes : nodes[n] # EvictionNotice } }

\* PutNodes with the guard testing for an active entry only: a join of an
\* evicted address makes it active again
PutNodes_Resurrects(nodes, address) ==
    IF Lookup(nodes, address) = address THEN nodes
    ELSE MapSet(nodes, address, address)

\* The registry a PUT /node leaves
PutNodes(nodes, address) ==
    IF Lookup(nodes, address) # Empty THEN nodes
    ELSE MapSet(nodes, address, address)

\* DeleteNodes dropping the tombstone on a second eviction
DeleteNodes_DropsTombstone(nodes, address) ==
    IF Lookup(nodes, address) = Empty THEN nodes
    ELSE IF Lookup(nodes, address) = EvictionNotice THEN MapDelete(nodes, address)
    ELSE MapSet(nodes, address, EvictionNotice)

\* The registry a DELETE /node leaves
DeleteNodes(nodes, address) ==
    IF Lookup(nodes, address) = Empty THEN nodes
    ELSE IF Lookup(nodes, address) = EvictionNotice THEN nodes
    ELSE MapSet(nodes, address, EvictionNotice)

MeshRequest(op, key, body, admin) == [op |-> op, key |-> key, body |-> body, admin |-> admin]

\* /node, PUT: the join
NodePut(address, admin) ==
    /\ meshStatus' = 200
    /\ ringCalls' = 1
    /\ Nodes' = PutNodes(Nodes, address)
    /\ joinCalls' = IF Lookup(Nodes, address) # Empty THEN {}
                    ELSE JoinLoop(Nodes', address, admin)

\* NodeDelete without the early return for an address already evicted
NodeDelete_NoTombstoneReturn(address) ==
    /\ joinCalls' = {}
    /\ Nodes' = DeleteNodes(Nodes, address)
    /\ IF Lookup(Nodes, address) = Empty
       THEN meshStatus' = 404 /\ ringCalls' = 1
       ELSE meshStatus' = 200 /\ ringCalls' = 2

\* /node, DELETE: the eviction, with the second ring forward ("We circle back")
NodeDelete(address) ==
    /\ joinCalls' = {}
    /\ Nodes' = DeleteNodes(Nodes, address)
    /\ IF Lookup(Nodes, address) = Empty
       THEN meshStatus' = 404 /\ ringCalls' = 1
       ELSE IF Lookup(Nodes, address) = EvictionNotice
       THEN meshStatus' = 200 /\ ringCalls' = 1
       ELSE meshStatus' = 200 /\ ringCalls' = 2

\* /node: the whole handler.  admin is what EnsureAdministrator returned.
NodeHandler(method, address, admin) ==
    /\ meshReq' = MeshRequest(method, Empty, address, admin)
    /\ proxyCalls' = << >>
    /\ UNCHANGED <<Index, SiteUrl, notMesh>>
    /\ IF admin = NoAdmin
       THEN /\ meshStatus' = 401
            /\ ringCalls' = 0
            /\ joinCalls' = {}
            /\ UNCHANGED Nodes
       ELSE IF address = Empty
       THEN /\ meshStatus' = 204
            /\ ringCalls' = 0
            /\ joinCalls' = {}
            /\ UNCHANGED Nodes
       ELSE IF method = "PUT" THEN NodePut(address, admin)
       ELSE IF method = "DELETE" THEN NodeDelete(address)
       ELSE /\ meshStatus' = 200
            /\ ringCalls' = 1
            /\ joinCalls' = {}
            /\ UNCHANGED Nodes

\* mesh.MeshPattern: one index line, "<apiKey> ... <server>"
MeshPattern == <<"Api key ", Hole, " is stored on server ", Hole, ".">>

\* A piece of text longer than bufio.MaxScanTokenSize (64 KiB)
Oversize == "more than 64 KiB without a line break"

\* bufio.Scanner: a line that does not fit the buffer; Scan() then returns
\* false for it and for everything after it
TooLong(line) == \E i \in 1..Len(line) : line[i] = Oversize

\* UpdateIndex's loop: the map the lines of the batch build, a line that
\* does not parse skipped; the loop ends at the end of the batch or at the
\* first line the scanner cannot hold
RECURSIVE ParseIndex(_, _)
ParseIndex(lines, index) ==
    IF lines = << >> \/ TooLong(Head(lines)) THEN index
    ELSE LET scan == Scanf1(Head(lines), MeshPattern)
         IN  IF ~scan.ok THEN ParseIndex(Tail(lines), index)
             ELSE ParseIndex(Tail(lines), MapSet(index, scan.args[1], scan.args[2]))

\* UpdateIndex(r): the index is replaced by what the batch holds
UpdateIndex(batch) ==
    /\ Index' = ParseIndex(batch, EmptyMap)
    /\ meshReq' = MeshRequest("INDEX", Empty, batch, AdminKey)
    /\ meshStatus' = 200
    /\ ringCalls' = 0
    /\ joinCalls' = {}
    /\ proxyCalls' = << >>
    /\ UNCHANGED <<Nodes, SiteUrl, notMesh>>

findServerOfApiKey(apiKey) == Lookup(Index, apiKey)

\* Proxy, lines 151-157: the scheme the local site uses is put in front of a
\* server address that does not start with it
ProxyServer(site, server) ==
    IF HasPrefix(site, <<Http>>) /\ ~HasPrefix(server, <<Http>>)
    THEN <<Http>> \o server
    ELSE IF HasPrefix(site, <<Https>>) /\ ~HasPrefix(server, <<Https>>)
    THEN <<Https>> \o server
    ELSE server

\* Proxy without the check of lines 147-150: an evicted owner is forwarded to
Proxy_NoGoneCheck(apiKey, original) ==
    /\ meshReq' = MeshRequest("PROXY", apiKey, original, NoAdmin)
    /\ ringCalls' = 0
    /\ joinCalls' = {}
    /\ UNCHANGED <<Nodes, Index, SiteUrl, notMesh>>
    /\ IF apiKey = Empty
       THEN meshStatus' = 404 /\ proxyCalls' = << >>
       ELSE LET server == findServerOfApiKey(apiKey)
            IN  IF server = Empty
                THEN meshStatus' = 404 /\ proxyCalls' = << >>
                ELSE LET modified == ReplaceFirst(original, SiteUrl, ProxyServer(SiteUrl, server))
                     IN  IF modified = original
                         THEN meshStatus' = 404 /\ proxyCalls' = << >>
                         ELSE meshStatus' = 200 /\ proxyCalls' = <<modified>>

\* Proxy(w, r): apiKey is the request's apikey header, original its URL
Proxy(apiKey, original) ==
    /\ meshReq' = MeshRequest("PROXY", apiKey, original, NoAdmin)
    /\ ringCalls' = 0
    /\ joinCalls' = {}
    /\ UNCHANGED <<Nodes, Index, SiteUrl, notMesh>>
    /\ IF apiKey = Empty
       THEN meshStatus' = 404 /\ proxyCalls' = << >>
       ELSE LET server == findServerOfApiKey(apiKey)
            IN  IF server = Empty
                THEN meshStatus' = 404 /\ proxyCalls' = << >>
                ELSE IF Synonym(Lookup(Nodes, server), EvictionNotice)
                THEN meshStatus' = 410 /\ proxyCalls' = << >>
                ELSE LET modified == ReplaceFirst(original, SiteUrl, ProxyServer(SiteUrl, server))
                     IN  IF modified = original
                         THEN meshStatus' = 404 /\ proxyCalls' = << >>
                         ELSE meshStatus' = 200 /\ proxyCalls' = <<modified>>

-----------------------------------------------------------------------------
(* package burst: the container table and the /run handler that uses it *)

NumContainers == 2
NumLambda == 2

\* RunBurst calls GetBurst at most this often (line 191)
Polls == 15

ContainerNames == <<"BOX1", "BOX2", "BOX3", "BOX4">>
ContainerKeys == { <<ContainerNames[n]>> : n \in 1..NumContainers }
Lambdas == 1..NumLambda

\* The request bodies of the /run calls
CodeNames == <<"code1", "code2", "code3", "code4">>

\* What RunBurst returns for a key when StartBurst found no container (line 189)
BusyKey == <<"The system is busy. Please reload.">>

\* The formats of lines 159, 161, 176 and 177
RunningPattern == <<"Burst container has key ", Hole, " and it is running ", Hole, ".">>
RunThisPattern == <<"Burst container has key ", Hole, " and it is running ", Hole, ".",
                    "Run this.", Hole>>
FinishedPattern == <<"Burst container has key ", Hole,
                     " and it is finished with the following result ", Hole>>
Sentinel == <<"DFFSSFFGGG">>

IdleSentence(containerKey) == Printf(RunningPattern, <<containerKey, <<"idle">> >>)

\* Lines 157-160: the records StartBurst may pick; range visits a Go map in
\* any order
IdleContainers(table) ==
    { containerKey \in DOMAIN table :
          LET scan == Scanf1(table[containerKey], RunningPattern)
          IN  scan.ok /\ scan.args[2] = <<"idle">> }

\* StartBurst returning the key without the update of line 162
StartBurst_LeavesIdle(table, containerKey, code) == table

\* Lines 161-162: the table after StartBurst picked containerKey
StartBurst(table, containerKey, code) ==
    MapSet(table, containerKey, Printf(RunThisPattern, <<containerKey, <<"code">>, code>>))

\* GetBurst returning the result without the update of line 177
GetBurst_KeepsFinished(table, key) ==
    LET scan == IF key \in DOMAIN table
                THEN Scanf1(table[key] \o Sentinel, FinishedPattern \o Sentinel)
                ELSE ScanFail
    IN  [result |-> IF scan.ok THEN scan.args[2] ELSE Empty, table |-> table]

\* GetBurst (lines 170-183): what it returns and the table it leaves
GetBurst(table, key) ==
    LET scan == IF key \in DOMAIN table
                THEN Scanf1(table[key] \o Sentinel, FinishedPattern \o Sentinel)
                ELSE ScanFail
    IN  IF scan.ok
        THEN [result |-> scan.args[2],
              table |-> MapSet(table, scan.args[1], IdleSentence(scan.args[1]))]
        ELSE [result |-> Empty, table |-> table]

\* RunExternalShell, line 150: the result of a task that the php collaborator
\* left to the default
ShellResult(task) == <<"This is the result.">> \o task

\* One invocation of the /run handler of SetupBurstLambdaEndpoint.  pc:
\* "new" (not called yet), "poll" (in the loop of RunBurst, i its loop
\* variable), "sleep" (in the sleep of line 32), "done" (returned).
\* noIdle: StartBurst found no idle container.
NewLambda == [pc |-> "new", input |-> Empty, key |-> Empty, i |-> 0, deferredKey |-> Empty,
              body |-> Empty, noIdle |-> FALSE]

InitBox ==
    /\ Container = EmptyMap
    /\ lambda = [b \in Lambdas |-> NewLambda]

\* /run (lines 28-30) up to the return of StartBurst in RunBurst
LambdaRun(b, input) ==
    /\ lambda[b].pc = "new"
    /\ \A q \in Lambdas : q < b => lambda[q].pc # "new"
    /\ ~lock
    /\ LET called == [lambda EXCEPT ![b].input = input]
       IN  IF IdleContainers(Container) = {}
           THEN /\ lambda' = [called EXCEPT ![b].pc = "sleep", ![b].deferredKey = BusyKey,
                                            ![b].noIdle = TRUE]
                /\ UNCHANGED Container
           ELSE \E containerKey \in IdleContainers(Container) :
                    /\ Container' = StartBurst(Container, containerKey, input)
                    /\ lambda' = [called EXCEPT ![b].pc = "poll", ![b].key = containerKey]
    /\ UNCHANGED <<lock, notBox>>

\* One turn of the loop of RunBurst (lines 191-197); a result ends the
\* handler (lines 31-35), the last empty turn sends it to the sleep of line 32
LambdaPoll(b) ==
    /\ lambda[b].pc = "poll"
    /\ ~lock
    /\ LET got == GetBurst(Container, lambda[b].key)
       IN  /\ Container' = got.table
           /\ IF got.result # Empty
              THEN lambda' = [lambda EXCEPT ![b].pc = "done", ![b].i = 0,
                                            ![b].deferredKey = lambda[b].key,
                                            ![b].body = got.result]
              ELSE IF lambda[b].i + 1 = Polls
              THEN lambda' = [lambda EXCEPT ![b].pc = "sleep", ![b].i = 0,
                                            ![b].deferredKey = lambda[b].key]
              ELSE lambda' = [lambda EXCEPT ![b].i = @ + 1]
    /\ UNCHANGED <<lock, notBox>>

\* Lines 32-35: after the sleep, GetBurst(deferredKey) is the response
LambdaDeferred(b) ==
    /\ lambda[b].pc = "sleep"
    /\ ~lock
    /\ LET got == GetBurst(Container, lambda[b].deferredKey)
       IN  /\ Container' = got.table
           /\ lambda' = [lambda EXCEPT ![b].pc = "done", ![b].body = got.result]
    /\ UNCHANGED <<lock, notBox>>

\* A container joins the table, idle
ContainerJoin(containerKey) ==
    /\ containerKey \notin DOMAIN Container
    /\ ~lock
    /\ Container' = MapSet(Container, containerKey, IdleSentence(containerKey))
    /\ UNCHANGED <<lambda, lock, notBox>>

\* The completion signal: a running container's record becomes the
\* finished sentence with the result of its task
ContainerFinish(containerKey) ==
    /\ containerKey \in DOMAIN Container
    /\ ~lock
    /\ LET scan == Scanf1(Container[containerKey], RunThisPattern)
       IN  /\ scan.ok
           /\ Container' = MapSet(Container, containerKey,
                                  Printf(FinishedPattern, <<scan.args[1], ShellResult(scan.args[3])>>))
    /\ UNCHANGED <<lambda, lock, notBox>>

\* The completion signal of a task that has no result: the finished
\* sentence ends with an empty result
ContainerFinishSilent(containerKey) ==
    /\ containerKey \in DOMAIN Container
    /\ ~lock
    /\ LET scan == Scanf1(Container[containerKey], RunThisPattern)
       IN  /\ scan.ok
           /\ Container' = MapSet(Container, containerKey,
                                  Printf(FinishedPattern, <<scan.args[1], Empty>>))
    /\ UNCHANGED <<lambda, lock, notBox>>

-----------------------------------------------------------------------------
(* package burst: the UDP receive loop *)

MaxPayload == 2
MaxMessages == 2

\* The two sentences of the framing (line 141)
Started == "Message has started."
Finished == "Message has finished."
FramePattern == <<Started, Hole, Finished>>

\* What a sender puts on the wire for a payload
Frame(payload) == <<Started>> \o payload \o <<Finished>>

\* The payloads: text, which may spell the closing sentence itself
PayloadTokens == { "p", Finished }
Payloads == UNION { [1..n -> PayloadTokens] : n \in 0..MaxPayload }

\* Every way of cutting a text into consecutive non-empty datagrams
RECURSIVE Splits(_)
Splits(s) ==
    IF s = Empty THEN { << >> }
    ELSE UNION { { <<SubSeq(s, 1, k)>> \o rest : rest \in Splits(SubSeq(s, k + 1, Len(s))) } :
                     k \in 1..Len(s) }

\* IsMessageComplete (lines 139-143)
IsMessageComplete(s) == Scanf1(s, FramePattern).ok

InitUdp ==
    /\ message = Empty
    /\ handled = << >>
    /\ wire = << >>
    /\ sent = << >>

\* A sender's framed message leaves as datagrams, once the datagrams of the
\* message before it have arrived
UdpSend(payload, datagrams) ==
    /\ wire = << >>
    /\ Len(sent) < MaxMessages
    /\ wire' = datagrams
    /\ sent' = Append(sent, payload)
    /\ UNCHANGED <<message, handled, notUdp>>

\* One turn of the loop of acceptMessage (lines 67-91): a datagram is read
\* and appended, and a complete message goes to the handler
AcceptDatagram ==
    /\ wire # << >>
    /\ wire' = Tail(wire)
    /\ LET data == Head(wire)
           received == message \o data
       IN  IF IsMessageComplete(received)
           THEN /\ handled' = Append(handled, received)
                /\ message' = Empty
           ELSE /\ message' = received
                /\ UNCHANGED handled
    /\ UNCHANGED <<sent, notUdp>>

\* The addresses of the senders, and what each of them says
NumSenders == 2
SenderNames == <<"sender1", "sender2", "sender3">>
Senders == { SenderNames[n] : n \in 1..NumSenders }
SenderTokens == <<"p", "q", "r">>
PayloadsOf(n) == { [i \in 1..len |-> SenderTokens[n]] : len \in 1..MaxPayload }

InitSenders ==
    /\ outbox = [addr \in Senders |-> << >>]
    /\ posted = EmptyMap
    /\ replies = << >>

\* A sender's framed message leaves as datagrams; every sender sends once
SendFrom(addr, payload, datagrams) ==
    /\ addr \notin DOMAIN posted
    /\ outbox' = [outbox EXCEPT ![addr] = datagrams]
    /\ posted' = MapSet(posted, addr, payload)
    /\ UNCHANGED <<message, handled, replies, notSenders>>

\* One turn of the loop of acceptMessage (lines 67-91) reading the next
\* datagram of addr: the reply to a complete message goes to the address
\* this datagram came from (line 84)
AcceptFrom(addr) ==
    /\ outbox[addr] # << >>
    /\ outbox' = [outbox EXCEPT ![addr] = Tail(@)]
    /\ LET data == Head(outbox[addr])
           received == message \o data
       IN  IF IsMessageComplete(received)
           THEN /\ handled' = Append(handled, received)
                /\ replies' = Append(replies, addr)
                /\ message' = Empty
           ELSE /\ message' = received
                /\ UNCHANGED <<handled, replies>>
    /\ UNCHANGED <<posted, notSenders>>

-----------------------------------------------------------------------------
(* package mesh on several nodes: a join and the requests it sets off *)

FloodSize == 2

\* The nodes that make up the mesh, and the address that joins it
Members == { <<HostNames[i]>> : i \in 1..FloodSize }
Joiner == <<"n:7777">>
MeshNodes == Members \cup {Joiner}

\* The registries a member can have before the join: any members, active
\* or evicted
Registries ==
    UNION { [known -> {"active", "evicted"}] : known \in SUBSET Members }
Registry(statuses) ==
    [node \in DOMAIN statuses |-> IF statuses[node] = "active" THEN node ELSE EvictionNotice]

NoDelivery == [to |-> Empty, held |-> FALSE, ring |-> 0, calls |-> {}]

\* One node, nothing sent
NoFlood ==
    /\ NodesAt = [node \in MeshNodes |-> EmptyMap]
    /\ floodWire = [node \in MeshNodes |-> 0]
    /\ joinLoops = [node \in MeshNodes |-> 0]
    /\ reached = {}
    /\ delivery = NoDelivery

InitFlood ==
    /\ NodesAt \in { [node \in MeshNodes |-> IF node = Joiner THEN EmptyMap
                                             ELSE Registry(statuses[node])] :
                         statuses \in [Members -> Registries] }
    /\ floodWire = [node \in MeshNodes |-> 0]
    /\ joinLoops = [node \in MeshNodes |-> 0]
    /\ reached = {}
    /\ delivery = NoDelivery

\* The nodes the calls of a join loop go to: the URL of a call is the
\* node's address, then "/node?apikey=" and the key
Targets(calls, node) == Cardinality({ call \in calls : HasPrefix(call.url, node \o <<"/node?apikey=">>) })

\* An administrator's PUT /node of the joining address, sent to a member
FloodStart(node) ==
    /\ reached = {}
    /\ \A other \in MeshNodes : floodWire[other] = 0
    /\ floodWire' = [floodWire EXCEPT ![node] = 1]
    /\ UNCHANGED <<NodesAt, joinLoops, reached, delivery, notFlood>>

\* A node handles a PUT /node of the joining address (lines 56-87): the
\* ring forward of line 69, then the join with its loop; the calls of the
\* loop are requests on their way to the nodes they name
FloodDeliver(node) ==
    /\ floodWire[node] > 0
    /\ LET held == Lookup(NodesAt[node], Joiner) # Empty
           nodes == PutNodes(NodesAt[node], Joiner)
           calls == IF held THEN {} ELSE JoinLoop(nodes, Joiner, AdminKey)
       IN  /\ NodesAt' = [NodesAt EXCEPT ![node] = nodes]
           /\ floodWire' = [other \in MeshNodes |->
                                floodWire[other] - (IF other = node THEN 1 ELSE 0)
                                    + Targets(calls, other)]
           /\ joinLoops' = [joinLoops EXCEPT ![node] = @ + (IF held THEN 0 ELSE 1)]
           /\ delivery' = [to |-> node, held |-> held, ring |-> 1, calls |-> calls]
    /\ reached' = reached \cup {node}
    /\ UNCHANGED notFlood

-----------------------------------------------------------------------------
(* package burst: the dispatcher of /run, /idle and /run.coin *)

\* The runtime budget, counted in units of itself
MaxBurstRuntime == 1

\* metadata.ActivationKey
ActivationKey == "IISABPDENLCAEIKFLMBORDQQNLMLBLKJLQELSIJPIESFIAQAJINCMHLDLALMSLAM"

NumRun == 2
MaxKeys == 2

Runs == 1..NumRun

\* drawing.GenerateUniqueKey: the n-th key it returns
KeyNames == <<"KEYA", "KEYB", "KEYC", "KEYD">>
UniqueKey(n) == KeyNames[n]
WorkerKeys == { UniqueKey(n) : n \in 1..MaxKeys }

\* The credentials the billing collaborator accepts, and what callers present
ValidCoins == { "C1" }
Credentials == { "C1", "forged" }

\* billing.ValidatedCoinContent: the coin, or "" for a credential it rejects
ValidatedCoinContent(credential) == IF credential \in ValidCoins THEN <<credential>> ELSE Empty

\* The payload of the n-th /run call, and the body the worker with a key PUTs
InputNames == <<"task1", "task2", "task3", "task4">>
ResultOf(key) == <<"result of ", key>>

PaymentRequiredBody == <<"Payment required with a PUT to /run.coin">>

\* englang.DecimalString(seconds since startTime): no code reads it back
Seconds == "0"

RegisteredPattern == <<"Burst box ", Hole, " registered at ", Hole, " second.">>
ReadyPattern == <<"Burst box ", Hole, " registered at ", Hole, " second is ready.">>

\* fmt.Sprintf of lines 90 and 99
RegisteredSentence(key) == Printf(RegisteredPattern, << <<key>>, <<Seconds>> >>)
ReadySentence(key) == Printf(ReadyPattern, << <<key>>, <<Seconds>> >>)

\* Line 105-108: the record under apiKey says "is ready"
IsReady(running, apiKey) ==
    /\ apiKey \in DOMAIN running
    /\ Scanf1(running[apiKey], ReadyPattern).ok

ReadyKeys(running) == { k \in DOMAIN running : IsReady(running, k) }

\* One /run invocation.  pc: "new" (not called yet), "submit" (parked in the
\* select of line 59), "toPayload" (its channel was taken, about to enter the
\* select of line 66), "payload" (parked there), "toResult" (payload
\* delivered, about to enter the select of line 73), "result" (parked
\* there), "done" (returned).  waited: the timeouts it sat out, in
\* MaxBurstRuntime.  taken: a worker received callChannel from code.
\* worker: the key of the worker that received the payload.  from: the key
\* given: the response that worker's GET /idle got.  from: the key whose
\* PUT /idle delivered the output.  noReady: no record was Ready at any time
\* since the call began.
NewRun == [pc |-> "new", apikey |-> "", input |-> Empty, status |-> 0, body |-> Empty,
           waited |-> 0, taken |-> FALSE, worker |-> "", given |-> Empty, from |-> "",
           noReady |-> FALSE]

\* The /idle handler in its critical section (a handler waiting in
\* lock.Lock() has no state yet, one that returned has none left).  pc:
\* "idle" (no handler holds the lock), "poll" (parked in the select of line
\* 110), "toRecv" (got callChannel, about to receive from it, line 114),
\* "recv" (parked in that receive), "put" (parked in the select of line 140).
\* ch: the reply channel it holds, named by the /run call that made it.
NewIdle == [pc |-> "idle", method |-> "", apikey |-> "", result |-> Empty, ch |-> 0]

Returned == idle.pc = "idle"

InitDispatcher ==
    /\ BurstSession = EmptyMap
    /\ ContainerRunning = EmptyMap
    /\ ContainerResults = EmptyMap
    /\ lock = FALSE
    /\ firstRun = TRUE
    /\ keysIssued = 0
    /\ run = [r \in Runs |-> NewRun]
    /\ idle = NewIdle
    /\ readyTimers = {}
    /\ cleanupTimers = {}
    /\ coinResp = [credential |-> "", status |-> 0, body |-> Empty]

\* Everything but package mesh at start-up; one node
InitBurst == InitDispatcher /\ InitBox /\ InitUdp /\ InitSenders /\ NoFlood

\* /run.coin, PUT (lines 154-176)
RunCoinPut(credential) ==
    /\ LET coinToUse == ValidatedCoinContent(credential)
       IN  IF coinToUse # Empty
           THEN /\ ~lock
                /\ BurstSession' = MapSet(BurstSession, coinToUse[1],
                                          <<"Burst chain api created from ", coinToUse[1]>>)
                /\ coinResp' = [credential |-> credential, status |-> 200, body |-> coinToUse]
           ELSE /\ coinResp' = [credential |-> credential, status |-> 402, body |-> Empty]
                /\ UNCHANGED BurstSession
    /\ UNCHANGED <<ContainerRunning, ContainerResults, lock, firstRun, keysIssued,
                   run, idle, readyTimers, cleanupTimers, notBurst>>

\* The /idle handler is parked in the select of line 110, receiving from code
Polling == idle.pc = "poll"

\* The /run handlers parked in the select of line 59, sending on code
Submitting == { r \in Runs : run[r].pc = "submit" }

\* code <- callChannel meets callChannel := <-code: r goes on to line 66,
\* h to line 114.  called is the run table with what r read from its request.
Handoff(called, polling, r) ==
    /\ run' = [called EXCEPT ![r].pc = "toPayload", ![r].taken = TRUE, ![r].noReady = FALSE]
    /\ idle' = [polling EXCEPT !.pc = "toRecv", !.ch = r]

\* /run without the check of lines 47-54: every caller goes on to line 59
RunStart_NoSessionCheck(r, apikey, input) ==
    /\ run[r].pc = "new"
    /\ \A q \in Runs : q < r => run[q].pc # "new"
    /\ LET called == [run EXCEPT ![r].apikey = apikey, ![r].input = input]
       IN  IF Polling
           THEN Handoff(called, idle, r)
           ELSE /\ run' = [called EXCEPT ![r].pc = "submit",
                                         ![r].noReady = ReadyKeys(ContainerRunning) = {}]
                /\ UNCHANGED idle
    /\ UNCHANGED <<BurstSession, ContainerRunning, ContainerResults, lock, firstRun, keysIssued,
                   readyTimers, cleanupTimers, coinResp, notBurst>>

\* /run, from the session check to the select of line 59 (the invocations
\* are numbered in the order in which they begin)
RunStart(r, apikey, input) ==
    /\ run[r].pc = "new"
    /\ \A q \in Runs : q < r => run[q].pc # "new"
    /\ IF apikey \notin DOMAIN BurstSession
       THEN /\ run' = [run EXCEPT ![r].pc = "done", ![r].apikey = apikey, ![r].status = 402,
                                  ![r].body = PaymentRequiredBody]
            /\ UNCHANGED idle
       ELSE LET called == [run EXCEPT ![r].apikey = apikey, ![r].input = input]
            IN  IF Polling
                THEN Handoff(called, idle, r)
                ELSE /\ run' = [called EXCEPT ![r].pc = "submit",
                                              ![r].noReady = ReadyKeys(ContainerRunning) = {}]
                     /\ UNCHANGED idle
    /\ UNCHANGED <<BurstSession, ContainerRunning, ContainerResults, lock, firstRun, keysIssued,
                   readyTimers, cleanupTimers, coinResp, notBurst>>

\* Line 60: nobody took callChannel within MaxBurstRuntime.  The handler goes
\* on to the select of line 66, where nobody can receive.
RunSubmitTimeout(r) ==
    /\ run[r].pc = "submit"
    /\ run' = [run EXCEPT ![r].pc = "payload", ![r].waited = @ + MaxBurstRuntime]
    /\ UNCHANGED <<BurstSession, ContainerRunning, ContainerResults, lock, firstRun, keysIssued,
                   idle, readyTimers, cleanupTimers, coinResp, notBurst>>

\* The match with line 116 storing the reply channel of another invocation
Matched_StoresOtherChannel(r) ==
    /\ ContainerRunning' = MapDelete(ContainerRunning, idle.apikey)
    /\ ContainerResults' = MapSet(ContainerResults, idle.apikey,
                                  IF Runs = {r} THEN r ELSE CHOOSE q \in Runs : q # r)
    /\ cleanupTimers' = cleanupTimers \cup {idle.apikey}
    /\ idle' = NewIdle
    /\ run' = [run EXCEPT ![r].pc = "toResult", ![r].worker = idle.apikey,
                          ![r].given = run[r].input]
    /\ lock' = FALSE

\* The match without the delete of line 115: the record stays ready
Matched_KeepsRecord(r) ==
    /\ UNCHANGED ContainerRunning
    /\ ContainerResults' = MapSet(ContainerResults, idle.apikey, r)
    /\ cleanupTimers' = cleanupTimers \cup {idle.apikey}
    /\ idle' = NewIdle
    /\ run' = [run EXCEPT ![r].pc = "toResult", ![r].worker = idle.apikey,
                          ![r].given = run[r].input]
    /\ lock' = FALSE

\* Lines 114-125, once request := <-callChannel has received from r: the
\* match, and the handler returns unlocking
Matched(r) ==
    /\ ContainerRunning' = MapDelete(ContainerRunning, idle.apikey)
    /\ ContainerResults' = MapSet(ContainerResults, idle.apikey, r)
    /\ cleanupTimers' = cleanupTimers \cup {idle.apikey}
    /\ idle' = NewIdle
    /\ run' = [run EXCEPT ![r].pc = "toResult", ![r].worker = idle.apikey,
                          ![r].given = run[r].input]
    /\ lock' = FALSE

\* /run enters the select of line 66 after its channel was taken
RunPayloadEnter(r) ==
    /\ run[r].pc = "toPayload"
    /\ IF idle.pc = "recv" /\ idle.ch = r
       THEN Matched(r)
       ELSE /\ run' = [run EXCEPT ![r].pc = "payload"]
            /\ UNCHANGED <<ContainerRunning, ContainerResults, cleanupTimers, idle, lock>>
    /\ UNCHANGED <<BurstSession, firstRun, keysIssued, readyTimers, coinResp, notBurst>>

\* Line 67: nobody received the payload within MaxBurstRuntime.  The handler
\* goes on to the select of line 73, where nobody can send.
RunPayloadTimeout(r) ==
    /\ run[r].pc = "payload"
    /\ run' = [run EXCEPT ![r].pc = "result", ![r].waited = @ + MaxBurstRuntime]
    /\ UNCHANGED <<BurstSession, ContainerRunning, ContainerResults, lock, firstRun, keysIssued,
                   idle, readyTimers, cleanupTimers, coinResp, notBurst>>

\* replyCh <- result meets output := <-callChannel; PUT /idle then deletes
\* its entry and returns unlocking
Delivered(r, key, result) ==
    /\ run' = [run EXCEPT ![r].pc = "done", ![r].status = 200, ![r].body = result, ![r].from = key]
    /\ ContainerResults' = MapDelete(ContainerResults, key)
    /\ lock' = FALSE

\* /run enters the select of line 73 after its payload was received
RunResultEnter(r) ==
    /\ run[r].pc = "toResult"
    /\ IF idle.pc = "put" /\ idle.ch = r
       THEN /\ Delivered(r, idle.apikey, idle.result)
            /\ idle' = NewIdle
       ELSE /\ run' = [run EXCEPT ![r].pc = "result"]
            /\ UNCHANGED <<ContainerResults, idle, lock>>
    /\ UNCHANGED <<BurstSession, ContainerRunning, firstRun, keysIssued, readyTimers,
                   cleanupTimers, coinResp, notBurst>>

\* Line 74: no output within MaxBurstRuntime + MaxBurstRuntime; the handler
\* returns having written nothing
RunResultTimeout(r) ==
    /\ run[r].pc = "result"
    /\ run' = [run EXCEPT ![r].pc = "done", ![r].status = 200,
                          ![r].waited = @ + MaxBurstRuntime + MaxBurstRuntime]
    /\ UNCHANGED <<BurstSession, ContainerRunning, ContainerResults, lock, firstRun, keysIssued,
                   idle, readyTimers, cleanupTimers, coinResp, notBurst>>

\* /idle, GET with the activation key (lines 84-103): a new key is handed
\* out and the goroutine that will mark it ready is started
IdleRegister ==
    /\ Returned
    /\ ~lock
    /\ keysIssued < MaxKeys
    /\ LET key == UniqueKey(keysIssued + 1)
       IN  /\ keysIssued' = keysIssued + 1
           /\ ContainerRunning' = MapSet(ContainerRunning, ActivationKey, RegisteredSentence(key))
           /\ readyTimers' = readyTimers \cup {key}
    /\ UNCHANGED <<BurstSession, ContainerResults, lock, firstRun, run, idle, cleanupTimers,
                   coinResp, notBurst>>

\* Lines 95-100: after its sleep (none while firstRun) the goroutine marks
\* the record of the key ready, under the lock
ReadySet(key) ==
    /\ key \in readyTimers
    /\ ~lock
    /\ ContainerRunning' = MapSet(ContainerRunning, key, ReadySentence(key))
    /\ readyTimers' = readyTimers \ {key}
    /\ run' = [r \in Runs |-> IF run[r].pc \in {"new", "done"} THEN run[r]
                              ELSE [run[r] EXCEPT !.noReady = FALSE]]
    /\ UNCHANGED <<BurstSession, ContainerResults, lock, firstRun, keysIssued,
                   idle, cleanupTimers, coinResp, notBurst>>

\* The poll without the tests of lines 106 and 108: any key goes on to the
\* select of line 110
IdlePoll_NoReadyCheck(apikey) ==
    /\ Returned
    /\ ~lock
    /\ apikey # ActivationKey
    /\ LET polling == [NewIdle EXCEPT !.method = "GET", !.apikey = apikey]
       IN  /\ firstRun' = FALSE
           /\ lock' = TRUE
           /\ IF Submitting # {}
              THEN \E r \in Submitting : Handoff(run, polling, r)
              ELSE /\ idle' = [polling EXCEPT !.pc = "poll"]
                   /\ UNCHANGED run
    /\ UNCHANGED <<BurstSession, ContainerRunning, ContainerResults, keysIssued,
                   readyTimers, cleanupTimers, coinResp, notBurst>>

\* /idle, GET with a worker key (lines 104-133), up to the select of line 110
IdlePoll(apikey) ==
    /\ Returned
    /\ ~lock
    /\ apikey # ActivationKey
    /\ LET polling == [NewIdle EXCEPT !.method = "GET", !.apikey = apikey]
       IN  IF ~IsReady(ContainerRunning, apikey)
           THEN UNCHANGED <<idle, lock, firstRun, run>>
           ELSE /\ firstRun' = FALSE
                /\ lock' = TRUE
                /\ IF Submitting # {}
                   THEN \E r \in Submitting : Handoff(run, polling, r)
                   ELSE /\ idle' = [polling EXCEPT !.pc = "poll"]
                        /\ UNCHANGED run
    /\ UNCHANGED <<BurstSession, ContainerRunning, ContainerResults, keysIssued,
                   readyTimers, cleanupTimers, coinResp, notBurst>>

\* Line 111: no task within MaxBurstRuntime; the handler unlocks and returns
IdlePollTimeout ==
    /\ idle.pc = "poll"
    /\ idle' = NewIdle
    /\ lock' = FALSE
    /\ UNCHANGED <<BurstSession, ContainerRunning, ContainerResults, firstRun, keysIssued,
                   run, readyTimers, cleanupTimers, coinResp, notBurst>>

\* The handler storing the reply channel (line 116) before the receive of
\* line 114 instead of after it
IdleRecvEnter_StoresFirst ==
    /\ idle.pc = "toRecv"
    /\ LET r == idle.ch
       IN  IF run[r].pc = "payload"
           THEN Matched(r)
           ELSE /\ idle' = [idle EXCEPT !.pc = "recv"]
                /\ ContainerResults' = MapSet(ContainerResults, idle.apikey, r)
                /\ UNCHANGED <<ContainerRunning, cleanupTimers, run, lock>>
    /\ UNCHANGED <<BurstSession, firstRun, keysIssued, readyTimers, coinResp, notBurst>>

\* Line 114: request := <-callChannel, a receive with no alternative; the
\* sender is r while it is parked in the select of line 66
IdleRecvEnter ==
    /\ idle.pc = "toRecv"
    /\ LET r == idle.ch
       IN  IF run[r].pc = "payload"
           THEN Matched(r)
           ELSE /\ idle' = [idle EXCEPT !.pc = "recv"]
                /\ UNCHANGED <<ContainerRunning, ContainerResults, cleanupTimers, run, lock>>
    /\ UNCHANGED <<BurstSession, firstRun, keysIssued, readyTimers, coinResp, notBurst>>

\* /idle, PUT (lines 134-150), up to the select of line 140
IdlePut(apikey, result) ==
    /\ Returned
    /\ ~lock
    /\ LET putting == [NewIdle EXCEPT !.method = "PUT", !.apikey = apikey, !.result = result]
       IN  IF apikey \notin DOMAIN ContainerResults
           THEN UNCHANGED <<idle, ContainerResults, lock, run>>
           ELSE LET replyCh == ContainerResults[apikey]
                IN  IF run[replyCh].pc = "result"
                    THEN /\ Delivered(replyCh, apikey, result)
                         /\ UNCHANGED idle
                    ELSE /\ idle' = [putting EXCEPT !.pc = "put", !.ch = replyCh]
                         /\ lock' = TRUE
                         /\ UNCHANGED <<ContainerResults, run>>
    /\ UNCHANGED <<BurstSession, ContainerRunning, firstRun, keysIssued,
                   readyTimers, cleanupTimers, coinResp, notBurst>>

\* The timeout of line 141 returning without the delete of line 146
IdlePutTimeout_KeepsEntry ==
    /\ idle.pc = "put"
    /\ idle' = NewIdle
    /\ lock' = FALSE
    /\ UNCHANGED <<BurstSession, ContainerRunning, ContainerResults, firstRun, keysIssued,
                   run, readyTimers, cleanupTimers, coinResp, notBurst>>

\* Lines 141-146: nobody received the result within 10 ms; the entry is
\* deleted all the same
IdlePutTimeout ==
    /\ idle.pc = "put"
    /\ ContainerResults' = MapDelete(ContainerResults, idle.apikey)
    /\ idle' = NewIdle
    /\ lock' = FALSE
    /\ UNCHANGED <<BurstSession, ContainerRunning, firstRun, keysIssued,
                   run, readyTimers, cleanupTimers, coinResp, notBurst>>

\* Lines 117-122: 2 * MaxBurstRuntime after the match the entry is deleted
CleanupFire(key) ==
    /\ key \in cleanupTimers
    /\ ~lock
    /\ ContainerResults' = MapDelete(ContainerResults, key)
    /\ cleanupTimers' = cleanupTimers \ {key}
    /\ UNCHANGED <<BurstSession, ContainerRunning, lock, firstRun, keysIssued,
                   run, idle, readyTimers, coinResp, notBurst>>

InitMesh ==
    /\ Nodes = EmptyMap
    /\ Index = EmptyMap
    /\ meshReq = MeshRequest("NONE", Empty, Empty, NoAdmin)
    /\ meshStatus = 0
    /\ ringCalls = 0
    /\ joinCalls = {}
    /\ proxyCalls = << >>

Methods == {"PUT", "DELETE", "GET"}

(* The registry alone: every /node request an administrator or a stranger  *)
(* can make.                                                               *)
InitNode == InitMesh /\ SiteUrl = <<Http, "127.0.0.1:7777">> /\ InitBurst

NextNode ==
    \E method \in Methods, address \in Addresses \cup {Empty}, admin \in {AdminKey, NoAdmin} :
        NodeHandler(method, address, admin)

SpecNode == InitNode /\ [][NextNode]_vars

(* Routing: index batches, joins and evictions of the servers the index    *)
(* names, and proxied requests.                                            *)
Servers == { <<HostNames[1]>>, <<Http, HostNames[1]>>, <<Https, HostNames[1]>>, <<HostNames[2]>> }

IndexLine(apiKey, server) == Printf(MeshPattern, <<apiKey, server>>)

\* The batches the routing model feeds to UpdateIndex: key1 alone, or key1
\* and key2, each on any server
RouteBatches ==
    { <<IndexLine(<<"key1">>, s)>> : s \in Servers }
        \cup { <<IndexLine(<<"key1">>, s), IndexLine(<<"key2">>, t)>> :
                  s \in Servers, t \in { <<HostNames[1]>>, <<HostNames[2]>> } }

Path == <<"/data.txt">>

InitRoute == InitMesh /\ SiteUrl \in SiteUrls /\ InitBurst

RouteNode == \E method \in {"PUT", "DELETE"}, address \in Servers : NodeHandler(method, address, AdminKey)

RouteIndex == \E batch \in RouteBatches : UpdateIndex(batch)

RouteProxy == \E apiKey \in ApiKeys \cup {Empty}, original \in {SiteUrl \o Path, Path} : Proxy(apiKey, original)

NextRoute == RouteNode \/ RouteIndex \/ RouteProxy

SpecRoute == InitRoute /\ [][NextRoute]_vars


(* The index alone: every batch of up to MaxBatch lines a PUT /index may    *)
(* carry.                                                                   *)
MaxBatch == 3

\* A line that is no index sentence
BadLine == <<"Api key ", "key1", " has no server">>

\* The lines of a batch: an index sentence, a line that is none, and a line
\* that is too long for the scanner
IndexLines ==
    { IndexLine(k, <<h>>) : k \in ApiKeys, h \in { HostNames[1], HostNames[2] } }
        \cup { BadLine, <<Oversize>> }

IndexBatches == UNION { [1..n -> IndexLines] : n \in 0..MaxBatch }

NextIndex == \E batch \in IndexBatches : UpdateIndex(batch)

SpecIndex == InitNode /\ [][NextIndex]_vars
NextBurst ==
    \/ \E credential \in Credentials : RunCoinPut(credential)
    \/ \E r \in Runs, apikey \in Credentials : RunStart(r, apikey, <<InputNames[r]>>)
    \/ \E r \in Runs : RunSubmitTimeout(r)
    \/ \E r \in Runs : RunPayloadEnter(r)
    \/ \E r \in Runs : RunPayloadTimeout(r)
    \/ \E r \in Runs : RunResultEnter(r)
    \/ \E r \in Runs : RunResultTimeout(r)
    \/ IdleRegister
    \/ \E key \in WorkerKeys : ReadySet(key)
    \/ \E apikey \in WorkerKeys : IdlePoll(apikey)
    \/ IdlePollTimeout
    \/ IdleRecvEnter
    \/ \E apikey \in WorkerKeys : IdlePut(apikey, ResultOf(apikey))
    \/ IdlePutTimeout
    \/ \E key \in WorkerKeys : CleanupFire(key)

Init == InitMesh /\ SiteUrl = <<Http, "127.0.0.1:7777">> /\ InitBurst

(* The dispatcher: /run.coin, /run and /idle calls in any interleaving *)
Spec == Init /\ [][NextBurst]_vars


\* What runs without a further request: the timeouts of the selects, the
\* handlers going on to their next line, and the two goroutines, which get
\* the lock in the end when it is free again and again
Fairness ==
    /\ \A r \in Runs : WF_vars(RunSubmitTimeout(r))
    /\ \A r \in Runs : WF_vars(RunPayloadEnter(r))
    /\ \A r \in Runs : WF_vars(RunPayloadTimeout(r))
    /\ \A r \in Runs : WF_vars(RunResultEnter(r))
    /\ \A r \in Runs : WF_vars(RunResultTimeout(r))
    /\ \A key \in WorkerKeys : SF_vars(ReadySet(key))
    /\ WF_vars(IdlePollTimeout)
    /\ WF_vars(IdleRecvEnter)
    /\ WF_vars(IdlePutTimeout)
    /\ \A key \in WorkerKeys : SF_vars(CleanupFire(key))

(* The dispatcher with its timers and goroutines running; requests come *)
(* or do not come                                                       *)
SpecLive == Spec /\ Fairness

NextBox ==
    \/ \E b \in Lambdas : LambdaRun(b, <<CodeNames[b]>>)
    \/ \E b \in Lambdas : LambdaPoll(b)
    \/ \E b \in Lambdas : LambdaDeferred(b)
    \/ \E containerKey \in ContainerKeys : ContainerJoin(containerKey)
    \/ \E containerKey \in ContainerKeys : ContainerFinish(containerKey)

(* The container table: /run calls of the lambda endpoint, containers *)
(* joining and finishing, in any interleaving                          *)
SpecBox == Init /\ [][NextBox]_vars

NextSilent ==
    \/ NextBox
    \/ \E containerKey \in ContainerKeys : ContainerFinishSilent(containerKey)

(* The container table with tasks that may finish without a result *)
SpecSilent == Init /\ [][NextSilent]_vars

NextUdp ==
    \/ \E payload \in Payloads : \E datagrams \in Splits(Frame(payload)) : UdpSend(payload, datagrams)
    \/ AcceptDatagram

(* The receive loop: framed messages arriving in datagrams *)
SpecUdp == Init /\ [][NextUdp]_vars

NextSenders ==
    \/ \E n \in 1..NumSenders : \E payload \in PayloadsOf(n) :
           \E datagrams \in Splits(Frame(payload)) : SendFrom(SenderNames[n], payload, datagrams)
    \/ \E addr \in Senders : AcceptFrom(addr)

(* The receive loop with several senders, their datagrams arriving in any order *)
SpecSenders == Init /\ [][NextSenders]_vars

NextFlood ==
    \/ \E node \in Members : FloodStart(node)
    \/ \E node \in MeshNodes : FloodDeliver(node)

(* A mesh of several nodes: one join and the requests that follow from it *)
InitJoin ==
    /\ InitMesh /\ SiteUrl = <<Http, "127.0.0.1:7777">>
    /\ InitDispatcher /\ InitBox /\ InitUdp /\ InitSenders /\ InitFlood

SpecFlood == InitJoin /\ [][NextFlood]_vars

-----------------------------------------------------------------------------
(* The dispatcher contract *)

\* C1: a /run call with a session, made while no worker record is Ready at
\* any time of the call, returns an empty body after at most
\* 2 * MaxBurstRuntime of waiting, summed over its three selects
C1_BusyWithinTwoBudgets ==
    \A r \in Runs :
        (run[r].pc = "done" /\ run[r].status = 200 /\ run[r].noReady)
            => (run[r].body = Empty /\ run[r].waited <= 2 * MaxBurstRuntime)

\* A call that met no Ready worker and sat out all three timeouts
C1_BlockedFourBudgets ==
    \E r \in Runs :
        /\ run[r].pc = "done" /\ run[r].status = 200 /\ run[r].noReady
        /\ run[r].body = Empty
        /\ run[r].waited = 4 * MaxBurstRuntime

C3_NoUnboundedWait ==
    idle.pc = "recv" => run[idle.ch].pc = "toPayload"

\* The worker's handler in the receive of line 114, holding the lock, after
\* its client returned
C3_StuckHoldingLock ==
    /\ idle.pc = "recv"
    /\ lock
    /\ run[idle.ch].pc = "done"

\* C4: a /run call made while no container is idle answers with the body
\* "The system is busy. Please reload."
C4_BusyLiteral ==
    \A b \in Lambdas :
        (lambda[b].pc = "done" /\ lambda[b].noIdle) => lambda[b].body = BusyKey

\* A call that found no idle container and answered with an empty body
C4_EmptyBody ==
    \E b \in Lambdas :
        /\ lambda[b].pc = "done" /\ lambda[b].noIdle
        /\ lambda[b].deferredKey = BusyKey
        /\ lambda[b].body = Empty

\* C5: a /run call without a BurstSession entry is answered 402 and leaves
\* the /idle handler alone, a 402 call was never taken by a worker; only
\* validated credentials get an entry, and a step that ends with /run.coin
\* having answered 402 leaves the table as it was
C5_SessionGate ==
    [][ /\ \A r \in Runs :
              (run[r].pc = "new" /\ run'[r].pc # "new")
                  => IF run'[r].apikey \in DOMAIN BurstSession
                     THEN run'[r].status # 402
                     ELSE /\ run'[r].status = 402
                          /\ run'[r].pc = "done"
                          /\ run'[r].body = PaymentRequiredBody
                          /\ idle' = idle
        /\ \A r \in Runs :
              run[r].status = 402
                  => (run'[r] = run[r] /\ ~run[r].taken /\ run[r].worker = "" /\ idle.ch # r)
        /\ BurstSession' # BurstSession
              => /\ coinResp'.status = 200
                 /\ coinResp'.credential \in ValidCoins
                 /\ ValidatedCoinContent(coinResp'.credential) # Empty
                 /\ DOMAIN BurstSession' = DOMAIN BurstSession \cup {coinResp'.credential}
        /\ (coinResp' # coinResp /\ coinResp'.credential \notin ValidCoins)
              => (coinResp'.status = 402 /\ BurstSession' = BurstSession)
      ]_vars

\* A forged credential was refused and a call without a session was
\* answered 402 while a worker was polling
C5_Witness ==
    /\ coinResp.status = 402 /\ coinResp.credential = "forged"
    /\ \E r \in Runs : run[r].status = 402 /\ run[r].pc = "done"
    /\ Polling

\* C6: a PUT /idle that waited in its select returns with its entry deleted;
\* a result is delivered only from a key that has an entry, to the client the
\* entry names, and the entry is gone with the same step, so that the key
\* delivers nothing again; a PUT whose client has returned changes no call
C6_ResultPosting ==
    [][ /\ (idle.pc = "put" /\ idle'.pc # "put")
              => /\ idle.apikey \notin DOMAIN ContainerResults'
                 /\ ~lock'
                 /\ run[idle.ch].pc = "done" => run' = run
        /\ \A r \in Runs :
              run'[r].from # run[r].from
                  => /\ run[r].from = ""
                     /\ run'[r].from \in DOMAIN ContainerResults
                     /\ ContainerResults[run'[r].from] = r
                     /\ run'[r].from \notin DOMAIN ContainerResults'
                     /\ \A q \in Runs : run[q].from # run'[r].from
      ]_vars

\* The worker reported and its result went nowhere: the entry is gone before
\* its timer fired, and the client returned empty
C6_Witness ==
    \E r \in Runs :
        /\ run[r].pc = "done" /\ run[r].body = Empty /\ run[r].worker # ""
        /\ run[r].worker \notin DOMAIN ContainerResults
        /\ run[r].worker \in cleanupTimers
        /\ idle.pc = "idle"
-----------------------------------------------------------------------------
(* Claims about the registry, under SpecNode.  In each state meshReq is    *)
(* the request handled last, so in a step meshReq' is the request the step *)
(* handles and the unprimed variables are the state it found.              *)

\* C7: two consecutive PUT /node calls with the same address, or two
\* consecutive DELETE /node calls with the same address, leave the registry
\* as it was after the first of them: the second call changes nothing.
C7_MembershipIdempotent ==
    [][ (meshReq.op \in {"PUT", "DELETE"} /\ meshReq' = meshReq) => Nodes' = Nodes ]_vars

\* A second PUT of an active address: it found the address and forwarded nothing
C7_Witness ==
    /\ meshReq.op = "PUT"
    /\ meshReq.admin = AdminKey
    /\ meshReq.body # EvictionNotice
    /\ Lookup(Nodes, meshReq.body) = meshReq.body
    /\ meshReq.body # Empty
    /\ joinCalls = {}

C9_Tombstone ==
    [][ \A a \in DOMAIN Nodes :
            Nodes[a] = EvictionNotice =>
                /\ a \in DOMAIN Nodes'
                /\ Nodes'[a] = EvictionNotice
                /\ (meshReq'.op = "PUT" /\ meshReq'.body = a) => joinCalls' = {} ]_vars

\* A PUT /node of an address that an earlier DELETE evicted
C9_Witness ==
    /\ meshReq.op = "PUT"
    /\ meshReq.admin = AdminKey
    /\ meshReq.body # EvictionNotice
    /\ Lookup(Nodes, meshReq.body) = EvictionNotice
    /\ joinCalls = {}

-----------------------------------------------------------------------------
(* Claims about routing, under SpecRoute *)

Schemes == {Http, Https}

\* The scheme an URL starts with ("" when it has none)
SchemeOf(url) == IF url # Empty /\ Head(url) \in Schemes THEN Head(url) ELSE ""

\* An address without its scheme
HostOf(address) == IF SchemeOf(address) = "" THEN address ELSE Tail(address)

\* C10 (for a request whose URL starts with the site URL): when the index
\* maps the request's apikey to a server that is not evicted, Proxy makes
\* exactly one forward, and its URL is the site's scheme, then that
\* server's host, then the rest of the request's URL.
C10_RoutedToOwner ==
    (/\ meshReq.op = "PROXY"
     /\ meshReq.key \in DOMAIN Index
     /\ HasPrefix(meshReq.body, SiteUrl)
     /\ Lookup(Nodes, Index[meshReq.key]) # EvictionNotice)
    => /\ Len(proxyCalls) = 1
       /\ proxyCalls[1] = <<SchemeOf(SiteUrl)>> \o HostOf(Index[meshReq.key])
                              \o SubSeq(meshReq.body, Len(SiteUrl) + 1, Len(meshReq.body))


\* C11: a Proxy call for an apikey whose index entry is an address the
\* registry holds as Evicted answers 410 and forwards nothing; a Proxy call
\* without an apikey header, or with an apikey the index does not hold,
\* answers 404 and forwards nothing
C11_Gone ==
    meshReq.op = "PROXY"
        => /\ (meshReq.key = Empty \/ meshReq.key \notin DOMAIN Index)
                  => (meshStatus = 404 /\ proxyCalls = << >>)
           /\ (/\ meshReq.key # Empty
               /\ meshReq.key \in DOMAIN Index
               /\ Index[meshReq.key] # Empty
               /\ Lookup(Nodes, Index[meshReq.key]) = EvictionNotice)
                  => (meshStatus = 410 /\ proxyCalls = << >>)

\* A request for a key whose owner got its eviction notice was answered 410
C11_Witness ==
    /\ meshReq.op = "PROXY"
    /\ meshReq.key \in DOMAIN Index
    /\ HasPrefix(meshReq.body, SiteUrl)
    /\ Lookup(Nodes, Index[meshReq.key]) = EvictionNotice
    /\ meshStatus = 410

\* The lines of a batch that are index sentences, by position
WellFormed(batch) == { i \in 1..Len(batch) : Scanf1(batch[i], MeshPattern).ok }

\* The apiKey -> server pairs of the well-formed lines, the last line of a key winning
PairsOf(batch) ==
    LET keyAt(i) == Scanf1(batch[i], MeshPattern).args[1]
        serverAt(i) == Scanf1(batch[i], MeshPattern).args[2]
        keys == { keyAt(i) : i \in WellFormed(batch) }
        last(k) == CHOOSE i \in WellFormed(batch) :
                       /\ keyAt(i) = k
                       /\ \A j \in WellFormed(batch) : keyAt(j) = k => j <= i
    IN  [k \in keys |-> serverAt(last(k))]

\* C12: after UpdateIndex(batch) the index is exactly the apiKey -> server
\* pairs of the well-formed lines of the batch, whatever it held before and
\* whatever lines that are no index sentences the batch has
C12_FullReplace ==
    [][ meshReq'.op = "INDEX" => Index' = PairsOf(meshReq'.body) ]_vars

\* An index sentence after an over-long line was not read
C12_LineAfterOversizeLost ==
    /\ meshReq.op = "INDEX"
    /\ Len(meshReq.body) >= 2
    /\ TooLong(meshReq.body[1])
    /\ WellFormed(meshReq.body) # {}
    /\ Index = EmptyMap

\* The messages that have arrived whole: all that were sent, but the last
\* one while datagrams of it are still on the wire
Arrived == IF wire = << >> THEN sent ELSE SubSeq(sent, 1, Len(sent) - 1)

\* C13: the handler was called once for every message that has arrived
\* whole, with the payload of that message, and not for a message of which
\* datagrams are still to come; after a call the buffer is empty
C13_FramingRoundTrip ==
    /\ handled = Arrived
    /\ wire = << >> => message = Empty

\* One message, its payload "p", arrived: the handler got the sentences
\* of the framing with it
C13_HandlerGotFrame ==
    /\ sent = << <<"p">> >>
    /\ wire = << >>
    /\ handled = << <<Started, "p", Finished>> >>

\* The record of containerKey says it runs code
RunningCode(table, containerKey, code) ==
    /\ containerKey \in DOMAIN table
    /\ LET scan == Scanf1(table[containerKey], RunThisPattern)
       IN  scan.ok /\ scan.args[1] = containerKey /\ scan.args[3] = code

\* The step is the StartBurst call of invocation b
StartBurstCall(b) == lambda[b].pc = "new" /\ lambda'[b].pc # "new"

\* The step is a GetBurst call that returns the result of containerKey
GetBurstReturns(containerKey) ==
    \E b \in Lambdas :
        /\ lambda[b].pc \in {"poll", "sleep"}
        /\ containerKey = (IF lambda[b].pc = "poll" THEN lambda[b].key ELSE lambda[b].deferredKey)
        /\ lambda'[b].body # Empty

\* C14: a StartBurst call returns the key of a container that was idle
\* when it was called and runs the call's code afterwards, every other record
\* unchanged, or returns "" and changes nothing when no container is idle;
\* a container of the table is idle again only through a GetBurst call, so
\* no two calls return the same key without one in between
C14_StartBurst ==
    [][ /\ \A b \in Lambdas :
              StartBurstCall(b) =>
                  IF IdleContainers(Container) = {}
                  THEN /\ lambda'[b].noIdle /\ lambda'[b].key = Empty
                       /\ Container' = Container
                  ELSE /\ ~lambda'[b].noIdle
                       /\ lambda'[b].key \in IdleContainers(Container)
                       /\ lambda'[b].key \notin IdleContainers(Container')
                       /\ RunningCode(Container', lambda'[b].key, lambda'[b].input)
                       /\ DOMAIN Container' = DOMAIN Container
                       /\ \A other \in DOMAIN Container \ {lambda'[b].key} :
                              Container'[other] = Container[other]
        /\ \A containerKey \in DOMAIN Container :
              (/\ Container'[containerKey] # Container[containerKey]
               /\ containerKey \in IdleContainers(Container')
               /\ containerKey \notin IdleContainers(Container))
                  => GetBurstReturns(containerKey) ]_vars

\* Two calls in their polling loops at once, each with a container of its own
C14_Witness ==
    \E b1, b2 \in Lambdas :
        /\ b1 # b2
        /\ lambda[b1].pc = "poll" /\ lambda[b2].pc = "poll"
        /\ lambda[b1].key # lambda[b2].key
        /\ RunningCode(Container, lambda[b1].key, lambda[b1].input)
        /\ RunningCode(Container, lambda[b2].key, lambda[b2].input)

\* The step is a GetBurst call of invocation b, and the key it is called with
GetBurstCall(b) == lambda[b].pc \in {"poll", "sleep"} /\ lambda'[b] # lambda[b]
GetBurstKey(b) == IF lambda[b].pc = "poll" THEN lambda[b].key ELSE lambda[b].deferredKey

\* The record of containerKey says it is finished
IsFinished(table, containerKey) ==
    /\ containerKey \in DOMAIN table
    /\ LET scan == Scanf1(table[containerKey], FinishedPattern)
       IN  scan.ok /\ scan.args[1] = containerKey
FinishedResult(table, containerKey) == Scanf1(table[containerKey], FinishedPattern).args[2]

\* C15: GetBurst on a finished container returns its result and leaves it
\* idle, every other record unchanged; on an unknown key and on an idle or a
\* running container it returns "" and leaves the table unchanged
C15_GetBurst ==
    [][ \A b \in Lambdas :
            GetBurstCall(b) =>
                IF IsFinished(Container, GetBurstKey(b))
                THEN /\ lambda'[b].body = FinishedResult(Container, GetBurstKey(b))
                     /\ lambda'[b].body # Empty
                     /\ GetBurstKey(b) \in IdleContainers(Container')
                     /\ DOMAIN Container' = DOMAIN Container
                     /\ \A other \in DOMAIN Container \ {GetBurstKey(b)} :
                            Container'[other] = Container[other]
                ELSE /\ lambda'[b].body = Empty
                     /\ Container' = Container ]_vars

\* A call got the result of a container, and a later call runs its code
\* on the same container
C15_Witness ==
    \E b1, b2 \in Lambdas :
        /\ b1 # b2
        /\ lambda[b1].pc = "done" /\ lambda[b1].body = ShellResult(lambda[b1].input)
        /\ lambda[b2].pc = "poll" /\ lambda[b2].key = lambda[b1].deferredKey
        /\ RunningCode(Container, lambda[b2].key, lambda[b2].input)

\* The calls of a set that go to the /node endpoint of node
CallsTo(calls, node) == { call \in calls : HasPrefix(call.url, node \o <<"/node?apikey=">>) }

\* C16: a PUT /node that inserts a new address makes, in its join loop,
\* exactly one call to every address of the registry that is not evicted,
\* a PUT of the same address to that node's /node with the administrator's
\* key of the request as apikey, and no call to an evicted address
C16_JoinTargets ==
    [][ (/\ meshReq'.op = "PUT"
         /\ meshReq'.admin # NoAdmin
         /\ meshReq'.body # Empty
         /\ Lookup(Nodes, meshReq'.body) = Empty)
        => /\ \A node \in DOMAIN Nodes' :
                 IF Nodes'[node] = EvictionNotice
                 THEN CallsTo(joinCalls', node) = {}
                 ELSE CallsTo(joinCalls', node) =
                          { [url |-> node \o <<"/node?apikey=">> \o meshReq'.admin,
                             method |-> "PUT", body |-> meshReq'.body] }
           /\ \A call \in joinCalls' : \E node \in DOMAIN Nodes' : call \in CallsTo(joinCalls', node) ]_vars

\* A join that found one node active and another evicted: it called the
\* active one and the address that joined
C16_Witness ==
    /\ meshReq.op = "PUT"
    /\ meshReq.admin = AdminKey
    /\ \E node, evicted \in DOMAIN Nodes :
           /\ node # meshReq.body /\ Nodes[node] = node /\ node # EvictionNotice
           /\ evicted # EvictionNotice /\ Nodes[evicted] = EvictionNotice
           /\ CallsTo(joinCalls, node) # {}
           /\ CallsTo(joinCalls, meshReq.body) # {}
           /\ CallsTo(joinCalls, evicted) = {}

-----------------------------------------------------------------------------
(* The rendezvous, under Spec *)

\* C17: a payload, once a worker received it, stays with that worker; the
\* key that receives a payload never received one before, and it receives
\* the payload of the client whose channel it took; a client that has a
\* result gets nothing more, and the result it gets is the body PUT with
\* the key of the worker that received its payload
C17_AtMostOnce ==
    [][ \A r \in Runs :
            /\ run[r].worker # ""
                   => (run'[r].worker = run[r].worker /\ run'[r].given = run[r].given)
            /\ run'[r].worker # run[r].worker
                   => /\ run'[r].given = run'[r].input
                      /\ \A q \in Runs \ {r} :
                             run[q].worker # run'[r].worker /\ run'[q].worker # run'[r].worker
            /\ run[r].from # "" => run'[r] = run[r]
            /\ (run'[r].body # run[r].body /\ run'[r].status # 402)
                   => /\ run[r].body = Empty
                      /\ run[r].worker # ""
                      /\ run'[r].from = run[r].worker
                      /\ run'[r].body = ResultOf(run[r].worker) ]_vars

\* Two clients, two workers: each client has the result of the worker that
\* received its payload
C17_Witness ==
    /\ run[1].pc = "done" /\ run[2].pc = "done"
    /\ run[1].worker # "" /\ run[2].worker # "" /\ run[1].worker # run[2].worker
    /\ run[1].given = run[1].input /\ run[2].given = run[2].input
    /\ run[1].body = ResultOf(run[1].worker)
    /\ run[2].body = ResultOf(run[2].worker)

\* C18: a worker receives a client's payload only in a step that finds the
\* client's reply channel taken from the shared channel; a key has a
\* PendingResult entry only when its worker has received the payload of the
\* client the entry names; and a client gets a result only in a step that
\* finds its payload received
C18_CausalOrder ==
    [][ /\ \A r \in Runs :
              /\ run'[r].worker # run[r].worker
                     => (run[r].taken /\ run[r].pc \in {"toPayload", "payload"})
              /\ run'[r].from # run[r].from
                     => (run[r].worker # "" /\ run[r].given = run[r].input
                         /\ run[r].pc \in {"toResult", "result"})
        /\ \A key \in DOMAIN ContainerResults' :
              /\ ContainerResults'[key] \in Runs
              /\ run'[ContainerResults'[key]].worker = key
              /\ run'[ContainerResults'[key]].given = run'[ContainerResults'[key]].input ]_vars

\* In the middle of an exchange: the payload is with the worker, the entry
\* of its key names the client, and the client waits for the result
C18_Witness ==
    \E r \in Runs :
        /\ run[r].pc = "result" /\ run[r].taken
        /\ run[r].worker \in DOMAIN ContainerResults
        /\ ContainerResults[run[r].worker] = r
        /\ run[r].from = ""

\* C19: a GET /idle waits for a task, takes a reply channel and receives a
\* payload only with a key whose record is ready; the step of the match
\* deletes the record, and the key was matched to no task before; a poll
\* that times out leaves the tables and every /run call as they were, the
\* record of its key ready
C19_WorkerSlot ==
    [][ /\ (idle.pc = "idle" /\ idle'.pc \in {"poll", "toRecv"})
              => IsReady(ContainerRunning, idle'.apikey)
        /\ idle.pc \in {"poll", "toRecv", "recv"}
              => IsReady(ContainerRunning, idle.apikey)
        /\ \A r \in Runs :
              run'[r].worker # run[r].worker
                  => /\ IsReady(ContainerRunning, run'[r].worker)
                     /\ run'[r].worker \notin DOMAIN ContainerRunning'
                     /\ \A q \in Runs : run[q].worker # run'[r].worker
        /\ (idle.pc = "poll" /\ idle'.pc = "idle")
              => /\ ContainerRunning' = ContainerRunning
                 /\ IsReady(ContainerRunning', idle.apikey)
                 /\ run' = run ]_vars

\* One key was matched and its record is gone; the record of the other key
\* is ready after a poll
C19_Witness ==
    \E r \in Runs, key \in WorkerKeys :
        /\ run[r].worker # "" /\ run[r].worker # key
        /\ run[r].worker \notin DOMAIN ContainerRunning
        /\ IsReady(ContainerRunning, key)
        /\ Returned

\* C20: every entry of ContainerResults and every record of
\* ContainerRunning, registered or ready, is removed in the end, whether or
\* not its worker makes another request
C20_Cleanup ==
    /\ \A key \in WorkerKeys :
           (key \in DOMAIN ContainerResults) ~> (key \notin DOMAIN ContainerResults)
    /\ \A key \in WorkerKeys \cup {ActivationKey} :
           (key \in DOMAIN ContainerRunning) ~> (key \notin DOMAIN ContainerRunning)

\* A worker registered, its record was marked ready, and no handler, timer
\* or goroutine is left that would touch it
C20_ReadyRecordLeft ==
    /\ IsReady(ContainerRunning, UniqueKey(1))
    /\ ActivationKey \in DOMAIN ContainerRunning
    /\ readyTimers = {} /\ cleanupTimers = {}
    /\ Returned /\ ~lock
    /\ \A r \in Runs : run[r].pc = "new"

-----------------------------------------------------------------------------
(* The lock *)

\* C21: a handler reads or writes a shared table only with the lock in its
\* hands, so a step in which the /run handler reads BurstSession, or in
\* which a handler that came without the lock changes a table, finds the
\* lock free for it to take
C21_LockDiscipline ==
    [][ /\ \A r \in Runs : (run[r].pc = "new" /\ run'[r].pc # "new") => ~lock
        /\ BurstSession' # BurstSession => ~lock
        /\ (idle.pc = "idle" /\ <<ContainerRunning, ContainerResults>>' # <<ContainerRunning, ContainerResults>>)
              => ~lock ]_vars

\* A /run call has read BurstSession and gone on while the handler of a
\* worker's poll holds the lock
C21_ReadWhileLocked ==
    /\ lock
    /\ idle.pc = "toRecv"
    /\ run[idle.ch].pc = "toPayload"
    /\ run[idle.ch].apikey \in DOMAIN BurstSession
    /\ \A r \in Runs \ {idle.ch} : run[r].pc = "new"

\* C22: no handler is parked on a channel, in the select of the task
\* pickup, in the receive of the payload or in the select of the result
\* send, with the lock in its hands
C22_ShortHold ==
    idle.pc \in {"poll", "toRecv", "recv", "put"} => ~lock

\* A worker's poll waits for a task holding the lock while the record of
\* another worker is ready: that worker's GET /idle cannot get past its
\* lock.Lock()
C22_PollerBlocksOthers ==
    /\ Polling
    /\ lock
    /\ \E key \in ReadyKeys(ContainerRunning) : key # idle.apikey

-----------------------------------------------------------------------------
(* The join in a mesh of several nodes, under SpecFlood *)

\* C23: every node runs the join loop for the joining address at most
\* once; a PUT /node that finds the address held sends nothing, neither in
\* the join loop nor by a ring forward; and once no request is left, every
\* node that handled one holds the address as active
C23_FloodTermination ==
    /\ \A node \in MeshNodes : joinLoops[node] <= 1
    /\ delivery.held => (delivery.calls = {} /\ delivery.ring = 0)
    /\ (reached # {} /\ \A node \in MeshNodes : floodWire[node] = 0)
           => \A node \in reached : Lookup(NodesAt[node], Joiner) = Joiner

\* A member got the join a second time, through the call its own join
\* loop made to its own address, and made the ring forward again
C23_DuplicateForwarded ==
    /\ delivery.to \in Members
    /\ delivery.held
    /\ joinLoops[delivery.to] = 1
    /\ delivery.ring = 1

-----------------------------------------------------------------------------
(* The results of the lambda endpoint, under SpecSilent *)

\* C24: a result that a /run call of the lambda endpoint has got, from
\* RunBurst or from the GetBurst that follows it, is the result of the code
\* this call started
C24_ResultOwnership ==
    \A b \in Lambdas :
        lambda[b].body # Empty => lambda[b].body = ShellResult(lambda[b].input)

\* A call returned the result of the code that another call started on
\* the container it was polling
C24_OthersResult ==
    \E b1, b2 \in Lambdas :
        /\ b1 # b2
        /\ lambda[b1].pc = "done"
        /\ lambda[b1].body = ShellResult(lambda[b2].input)
        /\ lambda[b2].key = lambda[b1].key

-----------------------------------------------------------------------------
(* Several senders at the receive loop, under SpecSenders *)

\* C25: whatever the order in which the datagrams of two senders arrive,
\* every handler call gets the framed message of one sender, nothing of
\* another sender's in it, and its reply goes to that sender's address; a
\* sender whose datagrams have all arrived had its message dispatched once
C25_SenderIsolation ==
    /\ Len(replies) = Len(handled)
    /\ \A i \in 1..Len(handled) :
           /\ replies[i] \in DOMAIN posted
           /\ handled[i] = Frame(posted[replies[i]])
    /\ \A addr \in DOMAIN posted :
           outbox[addr] = << >>
               => Cardinality({ i \in 1..Len(replies) : replies[i] = addr }) = 1

\* Two senders, all datagrams arrived: one handler call got text of both
\* of them, and its reply went to the second sender
C25_MixedMessage ==
    /\ DOMAIN posted = Senders
    /\ \A addr \in Senders : outbox[addr] = << >>
    /\ Len(handled) = 1
    /\ \E i, j \in 1..Len(handled[1]) :
           handled[1][i] = SenderTokens[1] /\ handled[1][j] = SenderTokens[2]
    /\ replies = <<SenderNames[2]>>

=============================================================================
